---- MODULE Spec2Model ----
(***************************************************************************)
(* Model of scripts/extract_batch.py (BatchExtractor) and                  *)
(* scripts/split_prompts.py (ChunkSplitter).                               *)
(*                                                                         *)
(* The file system is a function from paths to files.  A file's text is a  *)
(* sequence of tokens: JSON punctuation, opaque element values, and the    *)
(* two special tokens below.  stdout is a sequence of lines, a line being  *)
(* the sequence of string pieces the print call formats.                   *)
(*                                                                         *)
(* A run is one invocation of one of the two scripts.  Runs are sequential *)
(* (no concurrency in the scripts); between runs the user may replace the  *)
(* source file.  Reads fail as a function of the file's state (missing,    *)
(* unreadable, undecodable bytes, malformed JSON); writes may also fail    *)
(* for reasons outside the model (disk full, permissions), which is a      *)
(* nondeterministic choice.  stdout itself is assumed writable, and a      *)
(* source that parses is assumed to hold a JSON array (the input contract).*)
(***************************************************************************)
EXTENDS Integers, Sequences, FiniteSets, TLC

\* ---- bounds -------------------------------------------------------------
MaxLen == 3
MaxChunkSize == 2
MaxStart == 1
MaxCount == 2
\* runs of either script plus replacements of the source file
MaxEvents == 3
\* runs of split_prompts.py
MaxSplits == 2

\* ---- program constants ---------------------------------------------------
\* split_prompts.py: chunk_size = 50
chunk_size_default == 50
\* extract_batch.py: extract_batch(30, 50)
main_start == 30
main_count == 50

\* ---- values ---------------------------------------------------------------
\* A lone surrogate: json.load accepts "\ud800", the utf-8 codec cannot encode it.
Surrogate == "\\ud800"
\* A byte that is not valid utf-8: reading the file raises UnicodeDecodeError.
BadByte == "\\xff"
\* Element values.  The scripts never look inside an element, so a Dataset of
\* pairwise distinct elements stands for every Dataset of its length.
Letters == <<"a", "b", "c", "d", "e", "f", "g", "h">>
Elements == {Letters[k] : k \in 1..Len(Letters)} \cup {Surrogate}
Distinct(n) == [k \in 1..n |-> Letters[k]]
Datasets == {Distinct(n) : n \in 0..MaxLen}

Min(a, b) == IF a < b THEN a ELSE b
Max(a, b) == IF a > b THEN a ELSE b

\* ---- pure functions -------------------------------------------------------
\* Python's slice index adjustment (PySlice_AdjustIndices, step 1).
AdjustIndex(k, n) == IF k < 0 THEN Max(k + n, 0) ELSE Min(k, n)

\* Variant: data[start:count], the upper bound taken for the count.
PySliceToCount(s, lo, hi) ==
  LET n == Len(s)
      a == AdjustIndex(lo, n)
      b == AdjustIndex(hi - lo, n)
  IN [j \in 1..Max(b - a, 0) |-> s[a + j]]

\* data[lo:hi] on a list; positions are 0-based in the code, 1-based here.
PySlice(s, lo, hi) ==
  LET n == Len(s)
      a == AdjustIndex(lo, n)
      b == AdjustIndex(hi, n)
  IN [j \in 1..Max(b - a, 0) |-> s[a + j]]

\* Variant: range(i, stop + 1, step), the stop value included.
RECURSIVE PyRangeInclusive(_, _, _)
PyRangeInclusive(i, stop, step) ==
  IF i > stop THEN <<>> ELSE <<i>> \o PyRangeInclusive(i + step, stop, step)

\* range(i, stop, step) for step > 0, as the sequence of its values.
RECURSIVE PyRange(_, _, _)
PyRange(i, stop, step) ==
  IF i >= stop THEN <<>> ELSE <<i>> \o PyRange(i + step, stop, step)

\* Variant: data[i:i + chunk_size - 1], each chunk one element short.
MakeChunksShort(d, cs) ==
  LET r == PyRange(0, Len(d), cs)
  IN [k \in 1..Len(r) |-> PySlice(d, r[k], r[k] + cs - 1)]

\* [data[i:i + chunk_size] for i in range(0, len(data), chunk_size)]
MakeChunks(d, cs) ==
  LET r == PyRange(0, Len(d), cs)
  IN [k \in 1..Len(r) |-> PySlice(d, r[k], r[k] + cs)]

\* str(i) inside an f-string: the decimal digits of a non-negative integer.
DigitChars == <<"0", "1", "2", "3", "4", "5", "6", "7", "8", "9">>
RECURSIVE Decimal(_)
Decimal(n) ==
  IF n < 10 THEN <<DigitChars[n + 1]>>
  ELSE Decimal(n \div 10) \o <<DigitChars[(n % 10) + 1]>>

SourcePath == <<"data/prompts.json">>

\* Variant: the index left out of the name.
FilenameNoIndex(i) == <<"data/temp_chunk_", ".json">>

\* f'data/temp_chunk_{i}.json'
Filename(i) == <<"data/temp_chunk_">> \o Decimal(i) \o <<".json">>

\* The pieces json's iterencode yields for a list with indent=2; json.dump
\* writes them to the file one by one.  Whitespace is not modelled.
RECURSIVE ItemPieces(_, _)
ItemPieces(s, k) ==
  IF k > Len(s) THEN <<>>
  ELSE <<(IF k = 1 THEN <<>> ELSE <<",">>) \o <<s[k]>>>> \o ItemPieces(s, k + 1)

IterEncode(s) ==
  IF s = <<>> THEN <<<<"[]">>>>
  ELSE <<<<"[">>>> \o ItemPieces(s, 1) \o <<<<"]">>>>

RECURSIVE Flatten(_)
Flatten(ps) == IF ps = <<>> THEN <<>> ELSE Head(ps) \o Flatten(Tail(ps))

\* json.dumps(batch, indent=2, ensure_ascii=False): the whole text.
Dumps(s) == Flatten(IterEncode(s))

\* The text contains a character the utf-8 codec rejects.
Unencodable(toks) == \E k \in 1..Len(toks) : toks[k] = Surrogate

\* The pieces json.dump gets into the file before the first piece the codec
\* rejects (all of them when none is rejected).
RECURSIVE WrittenPieces(_)
WrittenPieces(ps) ==
  IF ps = <<>> \/ Unencodable(Head(ps)) THEN <<>>
  ELSE <<Head(ps)>> \o WrittenPieces(Tail(ps))

\* json.load: accepts "[]", "[" "]" and "[" e ("," e)* "]".
WellFormed(t) ==
  \/ t = <<"[]">>
  \/ /\ Len(t) >= 2
     /\ t[1] = "["
     /\ t[Len(t)] = "]"
     /\ \/ Len(t) = 2
        \/ /\ Len(t) % 2 = 1
           /\ \A k \in 2..(Len(t) - 1) :
                IF k % 2 = 0 THEN t[k] \in Elements ELSE t[k] = ","

Loads(t) ==
  IF t = <<"[]">> THEN <<>> ELSE [k \in 1..((Len(t) - 1) \div 2) |-> t[2 * k]]

Undecodable(t) == \E k \in 1..Len(t) : t[k] = BadByte

\* `except Exception` in extract_batch: every exception raised here derives
\* from Exception.
ExceptionClasses ==
  {"FileNotFoundError", "PermissionError", "UnicodeDecodeError",
   "JSONDecodeError", "UnicodeEncodeError", "OSError"}
\* Variant: `except OSError`.
CaughtOSError(e) == e \in {"FileNotFoundError", "PermissionError", "OSError"}

Caught(e) == e \in ExceptionClasses

\* ---- output lines ----------------------------------------------------------
TotalLine(n) == <<"Total items: ">> \o Decimal(n)
CreatedLine(name, n) ==
  <<"Created ">> \o name \o <<" with ">> \o Decimal(n) \o <<" items">>
ErrorLine(e) == <<"Error: ", e>>

\* ---- state ------------------------------------------------------------------
VARIABLES
  fs,         \* path -> [text, readable]; a path outside DOMAIN fs does not exist
  pc,         \* position of the running script, "idle" or "done"
  prog,       \* "none", "split" or "extract": the script of the current run
  status,     \* "none", "running", "ok" (normal exit) or "raised" (uncaught error)
  exc,        \* the exception raised, "" when none
  stdout,     \* lines printed by the current run
  f,          \* text of the opened source file
  data,       \* the loaded Dataset
  chunk_size,
  chunks,
  i,          \* enumerate index of the for loop
  start, count, batch,
  events,     \* runs started and source replacements so far
  splits,     \* runs of split_prompts.py started so far
  fs0,        \* history: fs when the current run started
  written,    \* history: paths the current run opened for writing
  prev        \* history: the normal splitter run just before the current run

vars == <<fs, pc, prog, status, exc, stdout, f, data, chunk_size, chunks, i,
          start, count, batch, events, splits, fs0, written, prev>>

File(text) == [text |-> text, readable |-> TRUE]
Unreadable(text) == [text |-> text, readable |-> FALSE]

\* States of the source file: absent, or present with one of these contents.
SourceFiles ==
  {File(Dumps(d)) : d \in Datasets}
    \cup {File(Dumps(<<"a", "a">>)),
          File(Dumps(<<"a", Surrogate>>)),
          Unreadable(Dumps(<<"a">>)),
          File(<<"[", BadByte, "]">>),
          File(<<"[", "a">>)}

\* The source file as a set: empty when the file does not exist.
SourceOf(files) == IF SourcePath \in DOMAIN files THEN {files[SourcePath]} ELSE {}

\* files with path p created or replaced by file x.
WithFile(files, p, x) ==
  [q \in DOMAIN files \cup {p} |-> IF q = p THEN x ELSE files[q]]

NoFiles == [q \in {} |-> File(<<>>)]

\* Variant: mode 'a', an existing file keeps its content.
OpenForAppend(files, p) ==
  IF p \in DOMAIN files THEN files ELSE WithFile(files, p, File(<<>>))

\* mode 'w': the file is created, or truncated when it exists.
OpenForWrite(files, p) == WithFile(files, p, File(<<>>))

\* f.write(text) on the file open at path p.
WriteText(files, p, text) == WithFile(files, p, File(files[p].text \o text))

NoPrev == [prog |-> "none", chunk_size |-> 0, src |-> {}, written |-> {}]

\* The summary of the run that is ending, kept for the run that follows it:
\* what a normal run of split_prompts.py read and wrote.
Summary ==
  IF prog = "split" /\ status = "ok"
  THEN [prog |-> prog, chunk_size |-> chunk_size,
        src |-> SourceOf(fs0),
        written |-> written]
  ELSE NoPrev

StartRun ==
  /\ prev' = IF pc = "done" THEN Summary ELSE prev
  /\ written' = {}

\* Every run is a new process: nothing in memory survives from the run before.
Locals0 ==
  /\ exc' = ""
  /\ stdout' = <<>>
  /\ f' = <<>>
  /\ data' = <<>>
  /\ chunks' = <<>>
  /\ i' = 0
  /\ batch' = <<>>

InitRest ==
  /\ pc = "idle"
  /\ prog = "none"
  /\ status = "none"
  /\ exc = ""
  /\ stdout = <<>>
  /\ f = <<>>
  /\ data = <<>>
  /\ chunk_size = chunk_size_default
  /\ chunks = <<>>
  /\ i = 0
  /\ start = 0
  /\ count = 0
  /\ batch = <<>>
  /\ events = 0
  /\ splits = 0
  /\ fs0 = fs
  /\ written = {}
  /\ prev = NoPrev

Init ==
  /\ \/ fs = NoFiles
     \/ \E src \in SourceFiles : fs = WithFile(NoFiles, SourcePath, src)
  /\ InitRest

Between == pc \in {"idle", "done"}

\* ---- the user replaces, or removes, data/prompts.json between runs ----------
SetSource ==
  /\ Between
  /\ events < MaxEvents
  /\ \/ \E src \in SourceFiles :
          /\ SourceOf(fs) # {src}
          /\ fs' = WithFile(fs, SourcePath, src)
     \/ /\ SourcePath \in DOMAIN fs
        /\ fs' = [q \in DOMAIN fs \ {SourcePath} |-> fs[q]]
  /\ events' = events + 1
  /\ pc' = "idle"
  /\ prog' = "none"
  /\ status' = "none"
  /\ Locals0
  /\ fs0' = fs'
  /\ written' = {}
  /\ prev' = NoPrev
  /\ chunk_size' = chunk_size_default
  /\ start' = 0
  /\ count' = 0
  /\ UNCHANGED splits

\* Variant: the exception is swallowed and the run ends normally.
RaiseSwallowed(e) ==
  /\ exc' = e
  /\ status' = "ok"
  /\ pc' = "done"

\* An uncaught exception e ends the run abnormally.
Raise(e) ==
  /\ exc' = e
  /\ status' = "raised"
  /\ pc' = "done"

\* ---- extract_batch.py --------------------------------------------------------
\* __main__ calls extract_batch(start, count)
StartExtract(s, c) ==
  /\ Between
  /\ events < MaxEvents
  /\ events' = events + 1
  /\ prog' = "extract"
  /\ status' = "running"
  /\ pc' = "e_open"
  /\ start' = s
  /\ count' = c
  /\ Locals0
  /\ fs0' = fs
  /\ StartRun
  /\ chunk_size' = chunk_size_default
  /\ UNCHANGED <<fs, splits>>

\* An exception e inside the try block: control goes to the except clause when
\* the clause catches it, and leaves the function otherwise.
Throw(e) ==
  IF Caught(e)
  THEN exc' = e /\ pc' = "e_except" /\ UNCHANGED status
  ELSE Raise(e)

\* Variant: the first chunk artifact is read in place of the source when it
\* exists.
ExtractOpenStale ==
  /\ pc = "e_open"
  /\ LET path == IF Filename(0) \in DOMAIN fs THEN Filename(0) ELSE SourcePath
     IN IF path \notin DOMAIN fs THEN Throw("FileNotFoundError") /\ UNCHANGED f
        ELSE IF ~fs[path].readable THEN Throw("PermissionError") /\ UNCHANGED f
        ELSE /\ f' = fs[path].text
             /\ pc' = "e_load"
             /\ UNCHANGED <<exc, status>>
  /\ UNCHANGED <<fs, prog, stdout, data, chunk_size, chunks, i, start, count,
                 batch, events, splits, fs0, written, prev>>

\* line 6: with open('data/prompts.json', 'r', encoding='utf-8') as f
ExtractOpen ==
  /\ pc = "e_open"
  /\ IF SourcePath \notin DOMAIN fs THEN Throw("FileNotFoundError") /\ UNCHANGED f
     ELSE IF ~fs[SourcePath].readable THEN Throw("PermissionError") /\ UNCHANGED f
     ELSE /\ f' = fs[SourcePath].text
          /\ pc' = "e_load"
          /\ UNCHANGED <<exc, status>>
  /\ UNCHANGED <<fs, prog, stdout, data, chunk_size, chunks, i, start, count,
                 batch, events, splits, fs0, written, prev>>

\* line 7: data = json.load(f)
ExtractLoad ==
  /\ pc = "e_load"
  /\ IF Undecodable(f) THEN Throw("UnicodeDecodeError") /\ UNCHANGED data
     ELSE IF ~WellFormed(f) THEN Throw("JSONDecodeError") /\ UNCHANGED data
     ELSE /\ data' = Loads(f)
          /\ pc' = "e_slice"
          /\ UNCHANGED <<exc, status>>
  /\ UNCHANGED <<fs, prog, stdout, f, chunk_size, chunks, i, start, count,
                 batch, events, splits, fs0, written, prev>>

\* line 9: batch = data[start:start+count]
ExtractSlice ==
  /\ pc = "e_slice"
  /\ batch' = PySlice(data, start, start + count)
  /\ pc' = "e_print"
  /\ UNCHANGED <<fs, prog, status, exc, stdout, f, data, chunk_size, chunks, i,
                 start, count, events, splits, fs0, written, prev>>

\* Variant: the batch is also saved to a file.
ExtractPrintSave ==
  /\ pc = "e_print"
  /\ IF Unencodable(Dumps(batch))
     THEN Throw("UnicodeEncodeError") /\ UNCHANGED <<stdout, fs>>
     ELSE /\ stdout' = Append(stdout, Dumps(batch))
          /\ fs' = WithFile(fs, <<"data/batch.json">>, File(Dumps(batch)))
          /\ status' = "ok"
          /\ pc' = "done"
          /\ UNCHANGED exc
  /\ UNCHANGED <<prog, f, data, chunk_size, chunks, i, start, count, batch,
                 events, splits, fs0, written, prev>>

\* line 12: print(json.dumps(batch, indent=2, ensure_ascii=False)); the text is
\* encoded as a whole, so nothing is printed when the codec rejects it.
ExtractPrint ==
  /\ pc = "e_print"
  /\ IF Unencodable(Dumps(batch))
     THEN Throw("UnicodeEncodeError") /\ UNCHANGED stdout
     ELSE /\ stdout' = Append(stdout, Dumps(batch))
          /\ status' = "ok"
          /\ pc' = "done"
          /\ UNCHANGED exc
  /\ UNCHANGED <<fs, prog, f, data, chunk_size, chunks, i, start, count, batch,
                 events, splits, fs0, written, prev>>

\* lines 14-15: except Exception as e: print(f"Error: {e}")
ExtractExcept ==
  /\ pc = "e_except"
  /\ stdout' = Append(stdout, ErrorLine(exc))
  /\ status' = "ok"
  /\ pc' = "done"
  /\ UNCHANGED <<fs, prog, exc, f, data, chunk_size, chunks, i, start, count,
                 batch, events, splits, fs0, written, prev>>

\* ---- split_prompts.py --------------------------------------------------------
\* The script runs with chunk size cs (line 12 fixes it to chunk_size_default).
StartSplit(cs) ==
  /\ Between
  /\ events < MaxEvents
  /\ events' = events + 1
  /\ splits < MaxSplits
  /\ splits' = splits + 1
  /\ prog' = "split"
  /\ status' = "running"
  /\ pc' = "s_open"
  /\ chunk_size' = cs
  /\ Locals0
  /\ fs0' = fs
  /\ StartRun
  /\ start' = 0
  /\ count' = 0
  /\ UNCHANGED fs

\* Variant: the artifacts of earlier runs are removed before the source is read.
SplitOpenClean ==
  /\ pc = "s_open"
  /\ fs' = [q \in DOMAIN fs \cap {SourcePath} |-> fs[q]]
  /\ IF SourcePath \notin DOMAIN fs THEN Raise("FileNotFoundError") /\ UNCHANGED f
     ELSE IF ~fs[SourcePath].readable THEN Raise("PermissionError") /\ UNCHANGED f
     ELSE /\ f' = fs[SourcePath].text
          /\ pc' = "s_load"
          /\ UNCHANGED <<exc, status>>
  /\ UNCHANGED <<prog, stdout, data, chunk_size, chunks, i, start, count,
                 batch, events, splits, fs0, written, prev>>

\* line 6: with open('data/prompts.json', 'r', encoding='utf-8') as f
SplitOpen ==
  /\ pc = "s_open"
  /\ IF SourcePath \notin DOMAIN fs THEN Raise("FileNotFoundError") /\ UNCHANGED f
     ELSE IF ~fs[SourcePath].readable THEN Raise("PermissionError") /\ UNCHANGED f
     ELSE /\ f' = fs[SourcePath].text
          /\ pc' = "s_load"
          /\ UNCHANGED <<exc, status>>
  /\ UNCHANGED <<fs, prog, stdout, data, chunk_size, chunks, i, start, count,
                 batch, events, splits, fs0, written, prev>>

\* line 7: data = json.load(f)
SplitLoad ==
  /\ pc = "s_load"
  /\ IF Undecodable(f) THEN Raise("UnicodeDecodeError") /\ UNCHANGED data
     ELSE IF ~WellFormed(f) THEN Raise("JSONDecodeError") /\ UNCHANGED data
     ELSE /\ data' = Loads(f)
          /\ pc' = "s_total"
          /\ UNCHANGED <<exc, status>>
  /\ UNCHANGED <<fs, prog, stdout, f, chunk_size, chunks, i, start, count,
                 batch, events, splits, fs0, written, prev>>

\* line 9: print(f"Total items: {len(data)}")
SplitTotal ==
  /\ pc = "s_total"
  /\ stdout' = Append(stdout, TotalLine(Len(data)))
  /\ pc' = "s_chunks"
  /\ UNCHANGED <<fs, prog, status, exc, f, data, chunk_size, chunks, i, start,
                 count, batch, events, splits, fs0, written, prev>>

\* lines 12-13: chunks = [data[i:i + chunk_size] for i in range(...)]
SplitChunks ==
  /\ pc = "s_chunks"
  /\ chunks' = MakeChunks(data, chunk_size)
  /\ i' = 0
  /\ pc' = "s_for"
  /\ UNCHANGED <<fs, prog, status, exc, stdout, f, data, chunk_size, start,
                 count, batch, events, splits, fs0, written, prev>>

\* line 15: for i, chunk in enumerate(chunks); the script ends after the loop.
SplitFor ==
  /\ pc = "s_for"
  /\ IF i < Len(chunks)
     THEN pc' = "s_open_out" /\ UNCHANGED status
     ELSE pc' = "done" /\ status' = "ok"
  /\ UNCHANGED <<fs, prog, exc, stdout, f, data, chunk_size, chunks, i, start,
                 count, batch, events, splits, fs0, written, prev>>

\* lines 16-17: with open(filename, 'w', encoding='utf-8') as f
SplitOpenOut ==
  /\ pc = "s_open_out"
  /\ fs' = OpenForWrite(fs, Filename(i))
  /\ written' = written \cup {Filename(i)}
  /\ pc' = "s_dump"
  /\ UNCHANGED <<prog, status, exc, stdout, f, data, chunk_size, chunks, i,
                 start, count, batch, events, splits, fs0, prev>>

\* lines 16-17, open fails (permissions, no space for a new file, ...).
SplitOpenOutFail ==
  /\ pc = "s_open_out"
  /\ Raise("OSError")
  /\ UNCHANGED <<fs, prog, stdout, f, data, chunk_size, chunks, i, start,
                 count, batch, events, splits, fs0, written, prev>>

\* What json.dump gets into the file for chunk c when no write fails.
DumpedText(c) == Flatten(WrittenPieces(IterEncode(c)))

\* line 18: json.dump(chunk, f, ensure_ascii=False, indent=2); the pieces before
\* an unencodable one are in the file when the with block closes it.
SplitDump ==
  /\ pc = "s_dump"
  /\ LET chunk == chunks[i + 1]
     IN /\ fs' = WriteText(fs, Filename(i), DumpedText(chunk))
        /\ IF Unencodable(Dumps(chunk))
           THEN Raise("UnicodeEncodeError")
           ELSE pc' = "s_created" /\ UNCHANGED <<exc, status>>
  /\ UNCHANGED <<prog, stdout, f, data, chunk_size, chunks, i, start, count,
                 batch, events, splits, fs0, written, prev>>

\* line 18, one of json.dump's f.write(piece) calls fails (disk full, ...): the
\* pieces written before it are in the file.
SplitDumpFail ==
  /\ pc = "s_dump"
  /\ LET ps == WrittenPieces(IterEncode(chunks[i + 1]))
     IN \E n \in 0..Len(ps) :
          /\ n < Len(IterEncode(chunks[i + 1]))
          /\ fs' = WriteText(fs, Filename(i), Flatten(SubSeq(ps, 1, n)))
  /\ Raise("OSError")
  /\ UNCHANGED <<prog, stdout, f, data, chunk_size, chunks, i, start, count,
                 batch, events, splits, fs0, written, prev>>

\* line 19: print(f"Created {filename} with {len(chunk)} items")
SplitCreated ==
  /\ pc = "s_created"
  /\ stdout' = Append(stdout, CreatedLine(Filename(i), Len(chunks[i + 1])))
  /\ i' = i + 1
  /\ pc' = "s_for"
  /\ UNCHANGED <<fs, prog, status, exc, f, data, chunk_size, chunks, start,
                 count, batch, events, splits, fs0, written, prev>>

\* ---- specification -------------------------------------------------------------
\* The chunk sizes the splitter runs with: the one the script hard-codes, and
\* small ones that make a short Dataset split into several chunks.
ChunkSizes == (1..MaxChunkSize) \cup {chunk_size_default}
\* The arguments extract_batch is called with: the ones __main__ passes, and
\* small ones that fall inside a short Dataset.
Starts == (0..MaxStart) \cup {main_start}
Counts == (0..MaxCount) \cup {main_count}

Next ==
  \/ SetSource
  \/ \E s \in Starts, c \in Counts : StartExtract(s, c)
  \/ ExtractOpen
  \/ ExtractLoad
  \/ ExtractSlice
  \/ ExtractPrint
  \/ ExtractExcept
  \/ \E cs \in ChunkSizes : StartSplit(cs)
  \/ SplitOpen
  \/ SplitLoad
  \/ SplitTotal
  \/ SplitChunks
  \/ SplitFor
  \/ SplitOpenOut
  \/ SplitOpenOutFail
  \/ SplitDump
  \/ SplitDumpFail
  \/ SplitCreated

Spec == Init /\ [][Next]_vars

TypeOK ==
  /\ pc \in {"idle", "done", "e_open", "e_load", "e_slice", "e_print",
             "e_except", "s_open", "s_load", "s_total", "s_chunks", "s_for",
             "s_open_out", "s_dump", "s_created"}
  /\ prog \in {"none", "split", "extract"}
  /\ status \in {"none", "running", "ok", "raised"}
  /\ events \in 0..MaxEvents
  /\ splits \in 0..MaxSplits

\* ---- vocabulary of the properties ------------------------------------------------
SplitEnded == pc = "done" /\ prog = "split"
SplitDone == SplitEnded /\ status = "ok"
ExtractEnded == pc = "done" /\ prog = "extract"

\* The source file can be opened, read and parsed.
Loadable(files) ==
  /\ SourcePath \in DOMAIN files
  /\ files[SourcePath].readable
  /\ ~Undecodable(files[SourcePath].text)
  /\ WellFormed(files[SourcePath].text)

\* The Dataset the current run works on: the content of the source file when
\* the run started.
Original == Loads(fs0[SourcePath].text)

CeilDiv(n, c) == (n + c - 1) \div c

\* The number of chunks of the current run, and its j-th chunk (j from 0), read
\* off the Dataset directly.
NumChunks == IF Loadable(fs0) THEN CeilDiv(Len(Original), chunk_size) ELSE 0
ExpChunk(j) ==
  [m \in 1..Min(chunk_size, Len(Original) - j * chunk_size) |->
     Original[j * chunk_size + m]]

Artifacts(n) == {Filename(j) : j \in 0..(n - 1)}

\* The Dataset stored in the artifact of index j.
Stored(j) == Loads(fs[Filename(j)].text)

\* C1: after a normal run of the splitter, the artifacts it wrote are those of
\* index 0..n-1, each holds a JSON array, and their contents concatenated in
\* index order are the original Dataset (the empty Dataset gives no artifact).
C1_ConcatReproducesDataset ==
  SplitDone =>
    LET n == Cardinality(written)
    IN /\ written = Artifacts(n)
       /\ \A j \in 0..(n - 1) : WellFormed(fs[Filename(j)].text)
       /\ Flatten([j \in 1..n |-> Stored(j - 1)]) = Original

C1_Witness ==
  /\ SplitDone
  /\ Cardinality(written) >= 2
  /\ Original = Distinct(3)

\* C2: a normal run writes ceil(len / chunkSize) artifacts; every one but the
\* last holds exactly chunkSize elements, the last holds 1..chunkSize, none is
\* empty, the empty Dataset gives none; 120 elements in chunks of 50 give
\* chunks of 50, 50 and 20.
C2_ChunkCountAndSizes ==
  /\ SplitDone =>
       LET n == Cardinality(written)
       IN /\ n = CeilDiv(Len(Original), chunk_size)
          /\ n = Len(chunks)
          /\ written = Artifacts(n)
          /\ \A j \in 0..(n - 2) : Len(Stored(j)) = chunk_size
          /\ n > 0 => Len(Stored(n - 1)) \in 1..chunk_size
          /\ \A j \in 0..(n - 1) : Stored(j) # <<>>
          /\ Original = <<>> => n = 0
  /\ pc = "s_chunks" =>
       LET c == MakeChunks([k \in 1..120 |-> "a"], chunk_size_default)
       IN [k \in 1..Len(c) |-> Len(c[k])] = <<50, 50, 20>>

C2_Witness ==
  /\ SplitDone
  /\ Cardinality(written) = 2
  /\ chunk_size = 2
  /\ Len(Stored(1)) = 1

\* The elements of d at the positions s <= q < s + c (positions from 0), in order.
SliceOf(d, s, c) ==
  [j \in 1..Cardinality({q \in 0..(Len(d) - 1) : s <= q /\ q < s + c}) |->
     d[s + j]]

\* The positions of the Dataset that extract_batch(start, count) selects.
Selected == {q \in 0..(Len(Original) - 1) : start <= q /\ q < start + count}

\* C3: on a source that loads, extract_batch(start, count) with start, count >= 0
\* computes the run of elements at positions start..min(start+count, len)-1, in
\* order (empty when start >= len or count = 0, truncated at the end of the
\* Dataset); the text it prints parses back to that run; and the only error it
\* can report is that the output cannot be encoded, never an index error.
C3_BatchIsTruncatingSlice ==
  (ExtractEnded /\ Loadable(fs0)) =>
    /\ Len(batch) = Cardinality(Selected)
    /\ \A j \in 1..Len(batch) : batch[j] = Original[start + j]
    /\ (start >= Len(Original) \/ count = 0) => batch = <<>>
    /\ start + count > Len(Original) =>
         Len(batch) = Max(Len(Original) - start, 0)
    /\ exc \in {"", "UnicodeEncodeError"}
    /\ exc = "" =>
         /\ Len(stdout) = 1
         /\ WellFormed(stdout[1])
         /\ Loads(stdout[1]) = batch

C3_Witness ==
  /\ ExtractEnded
  /\ Loadable(fs0)
  /\ exc = ""
  /\ Original = Distinct(2)
  /\ start = 1
  /\ count = 2
  /\ Loads(stdout[1]) = <<"b">>

\* The run of extract_batch started from files fails somewhere.
ExtractFails(files, s, c) ==
  \/ ~Loadable(files)
  \/ Unencodable(SliceOf(Loads(files[SourcePath].text), s, c))

IsErrorLine(line) == Len(line) >= 1 /\ line[1] = "Error: "

\* C4: extract_batch never ends with an uncaught error and never prints more
\* than one thing; when the source is missing, unreadable, undecodable or
\* malformed, or the output cannot be encoded, it ends normally having printed
\* exactly one line starting with "Error:" and no batch; otherwise it ends
\* having printed exactly the batch.
C4_ExtractCatchesEverything ==
  prog = "extract" =>
    /\ status # "raised"
    /\ Len(stdout) <= 1
    /\ pc = "done" =>
         /\ status = "ok"
         /\ Len(stdout) = 1
         /\ IF ExtractFails(fs0, start, count)
            THEN IsErrorLine(stdout[1]) /\ ~WellFormed(stdout[1])
            ELSE ~IsErrorLine(stdout[1]) /\ WellFormed(stdout[1])

C4_Witness ==
  /\ ExtractEnded
  /\ exc = "JSONDecodeError"
  /\ stdout = <<ErrorLine("JSONDecodeError")>>

ReadErrors ==
  {"FileNotFoundError", "PermissionError", "UnicodeDecodeError",
   "JSONDecodeError"}
WriteErrors == {"OSError", "UnicodeEncodeError"}

\* The lines a splitter run has printed once chunks 0..k-1 are reported.
Reported(k) ==
  <<TotalLine(Len(Original))>>
    \o [j \in 1..k |-> CreatedLine(Filename(j - 1), Len(ExpChunk(j - 1)))]

\* Every path other than the artifacts of index 0..k is as the run found it.
UntouchedBeyond(k) ==
  \A p \in DOMAIN fs \cup DOMAIN fs0 :
    p \notin Artifacts(k + 1) =>
      p \in DOMAIN fs0 /\ p \in DOMAIN fs /\ fs[p] = fs0[p]

\* C5: the splitter absorbs no failure: a run whose source does not load, or in
\* which a write fails, ends abnormally at that step.  After a read or parse
\* failure nothing was printed and no file was touched; after a failure on
\* chunk k the artifacts 0..k-1 are complete and reported, chunk k is not
\* reported, and no path beyond artifact k was created or written.
C5_SplitAbortsAtFailure ==
  prog = "split" =>
    /\ exc # "" => (status = "raised" /\ pc = "done")
    /\ (pc = "done" /\ ~Loadable(fs0)) => status = "raised"
    /\ (status = "raised" /\ exc \in ReadErrors) =>
         stdout = <<>> /\ fs = fs0 /\ written = {}
    /\ (status = "raised" /\ exc \in WriteErrors) =>
         /\ stdout = Reported(i)
         /\ \A j \in 0..(i - 1) : fs[Filename(j)].text = Dumps(ExpChunk(j))
         /\ UntouchedBeyond(i)
         /\ written \subseteq Artifacts(i + 1)

C5_Witness ==
  /\ SplitEnded
  /\ status = "raised"
  /\ exc = "OSError"
  /\ i = 1
  /\ NumChunks = 3
  /\ Filename(1) \in DOMAIN fs
  /\ fs[Filename(1)].text = <<"[">>

\* C6: a normal run of the splitter that directly follows a normal run on the
\* same source with the same chunk size writes the same artifact names as that
\* run, and leaves each of them with the content that run left.
C6_SplitIdempotent ==
  (/\ SplitDone
   /\ prev.prog = "split"
   /\ prev.chunk_size = chunk_size
   /\ prev.src = SourceOf(fs0)) =>
    /\ written = prev.written
    /\ \A p \in written : p \in DOMAIN fs0 /\ fs[p] = fs0[p]
    /\ fs = fs0

C6_Witness ==
  /\ SplitDone
  /\ prev.prog = "split"
  /\ prev.chunk_size = chunk_size
  /\ prev.src = SourceOf(fs0)
  /\ Cardinality(written) >= 2

\* What extract_batch(s, c) prints, read off the source file src (a set: empty
\* when the file does not exist) and the arguments alone.
OutputOf(src, s, c) ==
  IF src = {} THEN ErrorLine("FileNotFoundError")
  ELSE LET file == CHOOSE x \in src : TRUE
           sel == SliceOf(Loads(file.text), s, c)
       IN IF ~file.readable THEN ErrorLine("PermissionError")
          ELSE IF Undecodable(file.text) THEN ErrorLine("UnicodeDecodeError")
          ELSE IF ~WellFormed(file.text) THEN ErrorLine("JSONDecodeError")
          ELSE IF Unencodable(sel) THEN ErrorLine("UnicodeEncodeError")
          ELSE Dumps(sel)

\* C7: what a call of extract_batch prints is determined by (start, count) and
\* the source file as the call finds it, whatever ran before it; so two calls
\* with the same arguments on an unchanged source print the same.
C7_ExtractDeterministic ==
  ExtractEnded => stdout = <<OutputOf(SourceOf(fs0), start, count)>>

C7_Witness ==
  /\ ExtractEnded
  /\ events = 3
  /\ prev.prog = "split"
  /\ prev.written # {}
  /\ exc = ""
  /\ Len(batch) = 2

\* C8: a run of extract_batch, whether it prints the batch or an error, leaves
\* every file as it found it and creates none.
C8_ExtractTouchesNoFile ==
  prog = "extract" => fs = fs0

C8_Witness ==
  /\ ExtractEnded
  /\ Filename(0) \in DOMAIN fs
  /\ exc = "UnicodeEncodeError"
  /\ stdout = <<ErrorLine(exc)>>

\* C9: in a run of the splitter the Total line, reporting len(Dataset), is
\* printed before any file is written; the artifacts are opened in the order
\* of their index, from 0 with none skipped; the k-th Created line reports the
\* name of index k and the size of chunk k, and is printed only when that
\* artifact holds chunk k in full; the names of distinct indices differ.
C9_SplitEventOrder ==
  prog = "split" =>
    /\ (fs # fs0 \/ written # {}) =>
         (Len(stdout) >= 1 /\ stdout[1] = TotalLine(Len(Original)))
    /\ written = Artifacts(Cardinality(written))
    /\ Len(stdout) <= 1 + Cardinality(written)
    /\ Cardinality(written) <= Len(stdout)
    /\ \A k \in 2..Len(stdout) :
         /\ stdout[k] = CreatedLine(Filename(k - 2), Len(ExpChunk(k - 2)))
         /\ fs[Filename(k - 2)].text = Dumps(ExpChunk(k - 2))
    /\ Cardinality(Artifacts(NumChunks)) = NumChunks
    /\ pc = "s_total" =>
         Cardinality(Artifacts(chunk_size_default)) = chunk_size_default

C9_Witness ==
  /\ pc = "s_created"
  /\ i = 2
  /\ Len(stdout) = 3
  /\ Original = Distinct(3)

\* C10: a run of the splitter never changes or removes the source file or any
\* path other than the artifacts of index below its chunk count; an artifact
\* of a higher index left by an earlier run stays as it was.
C10_SplitFrame ==
  prog = "split" =>
    /\ SourceOf(fs) = SourceOf(fs0)
    /\ \A p \in DOMAIN fs0 : p \in DOMAIN fs
    /\ \A p \in DOMAIN fs :
         p \notin Artifacts(NumChunks) => (p \in DOMAIN fs0 /\ fs[p] = fs0[p])

C10_Witness ==
  /\ SplitDone
  /\ NumChunks = 1
  /\ Filename(2) \in DOMAIN fs
  /\ fs[Filename(2)].text = Dumps(<<"c">>)
  /\ fs[Filename(0)].text = Dumps(<<"a">>)
====
